---- MODULE Spec2Model ----
(***************************************************************************)
(* StreamWindow (src/node/StreamWindow.js): a fixed pool of view state     *)
(* machines, the reconciliation pass setViews that maps the boxes of a     *)
(* layout onto the pool, and setListeningView that routes audio focus.     *)
(*                                                                         *)
(* The view state machine (./viewStateMachine), the geometry partitioner   *)
(* (./geometry) and the constants (../constants) are imported by           *)
(* StreamWindow.js; they are modelled here from the specification's        *)
(* sections 4.1, 4.2, 5 and 6.                                             *)
(***************************************************************************)
EXTENDS Integers, Sequences, FiniteSets, TLC

\* Size of the pool built by init(); the program builds 10 views, the model
\* is checked with a smaller pool.
NumViews == 2

\* GRID_COUNT: the grid is GridCount x GridCount cells.
GridCount == 2

\* SPACE_WIDTH, SPACE_HEIGHT: pixels per grid cell.
SpaceWidth == 2
SpaceHeight == 1
\* Side of the grid on which the partitioner is checked on its own.
GeoCount == 3

Urls == {"A", "B"}
NoUrl == "none"
Infos == {"t1"}
NoInfo == "none"

ViewIds == 0 .. (NumViews - 1)
Cells == 0 .. (GridCount * GridCount - 1)

\* Arguments setListeningView is called with: every cell and one index past
\* the grid.
FocusArgs == Cells \cup {GridCount * GridCount}
NoFocus == -1

\* A viewURLMap: cell index -> url or nothing.
ViewURLMaps == [Cells -> Urls \cup {NoUrl}]

\* The viewURLMaps that use one url only.
OneUrlMaps == [Cells -> {"A", NoUrl}]

NoPos == [x |-> 0, y |-> 0, width |-> 0, height |-> 0, spaces |-> {}]

VARIABLES
    views,       \* this.views: idx -> the state of the view's machine
    viewStates,  \* this.viewStates: idx -> last snapshot seen by handleViewTransition
    inflight,    \* content events the surfaces have yet to deliver: {<<idx, url>>}
    focus,       \* argument of the most recent setListeningView call
    lastOp,      \* the operation that produced this state
    lastMap,     \* the viewURLMap, when the last operation was setViews
    lastEvent,   \* <<idx, url>>, when the last operation delivered a content event
    sent,        \* the commands the last operation sent, in order
    threw,       \* whether the last operation ended by throwing
    layout,      \* the viewURLMap of the most recent setViews call
    failed,      \* urls whose load failed since the most recent setViews call
    geoMap,      \* the viewURLMap handed to the partitioner on its own
    geoBoxes     \* the boxes the partitioner returned for geoMap

vars == <<views, viewStates, inflight, focus, lastOp, lastMap, lastEvent, sent, threw,
          layout, failed, geoMap, geoBoxes>>

\* layout and failed are history, written by the specification SpecRetry.
hist == <<layout, failed>>
geo == <<geoMap, geoBoxes>>

----------------------------------------------------------------------------
(* Geometry partitioner: boxesFromViewURLMap(width, height, viewURLMap).    *)

CellIdx(width, x, y) == width * y + x

\* Mutant of IsPosContent: cells that are already part of a box are taken again.
IsPosContentAnyCell(width, m, visited, x, y, url) == m[CellIdx(width, x, y)] = url

\* A cell continues a box when it is not yet part of a box and has the box's url.
IsPosContent(width, m, visited, x, y, url) ==
    /\ CellIdx(width, x, y) \notin visited
    /\ m[CellIdx(width, x, y)] = url

Min(S) == CHOOSE n \in S : \A k \in S : n <= k

\* The largest box with top-left corner (x, y): extended downwards first,
\* then to the right by whole columns.
FindLargestBox(width, height, m, visited, x, y) ==
    LET url == m[CellIdx(width, x, y)]
        maxY == Min({yy \in (y + 1) .. height :
                       yy = height \/ ~IsPosContent(width, m, visited, x, yy, url)})
        maxX == Min({xx \in (x + 1) .. width :
                       xx = width \/ \E cy \in y .. (maxY - 1) :
                                        ~IsPosContent(width, m, visited, xx, cy, url)})
    IN [url |-> url, x |-> x, y |-> y, w |-> maxX - x, h |-> maxY - y,
        spaces |-> {CellIdx(width, cx, cy) : cx \in x .. (maxX - 1), cy \in y .. (maxY - 1)}]

RECURSIVE ScanBoxes(_, _, _, _, _, _)
ScanBoxes(width, height, m, idx, visited, boxes) ==
    IF idx >= width * height THEN boxes
    ELSE IF idx \in visited \/ m[idx] = NoUrl
         THEN ScanBoxes(width, height, m, idx + 1, visited, boxes)
         ELSE LET box == FindLargestBox(width, height, m, visited, idx % width, idx \div width)
              IN ScanBoxes(width, height, m, idx + 1, visited \cup box.spaces,
                           Append(boxes, box))

boxesFromViewURLMap(width, height, m) == ScanBoxes(width, height, m, 0, {}, <<>>)

----------------------------------------------------------------------------
(* View state machine: the next machine state for one event.               *)

InitView == [state |-> "idle", url |-> NoUrl, pos |-> NoPos, info |-> NoInfo, muted |-> TRUE]

Cleared(v) == [v EXCEPT !.state = "idle", !.url = NoUrl, !.pos = NoPos, !.info = NoInfo]

OnDisplay(v, ev) ==
    IF v.state # "idle" /\ v.url = ev.url
    THEN [v EXCEPT !.pos = ev.pos]
    ELSE [v EXCEPT !.state = "loading", !.url = ev.url, !.pos = ev.pos]

\* Mutant of OnContentReady: the url of the event is not compared.
OnContentReadyAnyUrl(v, ev) ==
    IF v.state = "loading"
    THEN [v EXCEPT !.state = "displaying", !.info = ev.info]
    ELSE v

\* A content event counts only for the url the view is loading.
OnContentReady(v, ev) ==
    IF v.state = "loading" /\ v.url = ev.url
    THEN [v EXCEPT !.state = "displaying", !.info = ev.info]
    ELSE v

\* Mutant of OnContentFailed: the view goes idle with its url and pos kept.
OnContentFailedKeepsUrl(v, ev) ==
    IF v.state = "loading" /\ v.url = ev.url THEN [v EXCEPT !.state = "idle"] ELSE v

OnContentFailed(v, ev) ==
    IF v.state = "loading" /\ v.url = ev.url THEN Cleared(v) ELSE v

\* Mutant of Transition: a content-ready event is taken in every state.
TransitionReadyAnyState(v, ev) ==
    CASE ev.type = "DISPLAY" -> OnDisplay(v, ev)
      [] ev.type = "CLEAR" -> Cleared(v)
      [] ev.type = "MUTE" -> [v EXCEPT !.muted = TRUE]
      [] ev.type = "UNMUTE" -> [v EXCEPT !.muted = FALSE]
      [] ev.type = "READY" -> [v EXCEPT !.state = "displaying", !.info = ev.info]
      [] ev.type = "FAILED" -> OnContentFailed(v, ev)

Transition(v, ev) ==
    CASE ev.type = "DISPLAY" -> OnDisplay(v, ev)
      [] ev.type = "CLEAR" -> Cleared(v)
      [] ev.type = "MUTE" -> [v EXCEPT !.muted = TRUE]
      [] ev.type = "UNMUTE" -> [v EXCEPT !.muted = FALSE]
      [] ev.type = "READY" -> OnContentReady(v, ev)
      [] ev.type = "FAILED" -> OnContentFailed(v, ev)

\* DISPLAY starts a navigation, hence one later content event, unless the
\* view already has the url.
Navigates(v, ev) == ev.type = "DISPLAY" /\ (v.state = "idle" \/ v.url # ev.url)

----------------------------------------------------------------------------
(* StreamWindow                                                            *)

\* handleViewTransition(idx, state): the snapshot stored for idx.
ViewSnapshot(v) == [state |-> v.state, context |-> [url |-> v.url, info |-> v.info, pos |-> v.pos]]

handleViewTransitionFirst(vss, idx, v) == [vss EXCEPT ![0] = ViewSnapshot(v)]

handleViewTransition(vss, idx, v) == [vss EXCEPT ![idx] = ViewSnapshot(v)]

\* A pool with its bookkeeping, threaded through the sends of one operation.
Pool(vs, vss, infl, log) == [views |-> vs, viewStates |-> vss, inflight |-> infl, sent |-> log]

\* space.send(ev) on view idx, with the onTransition callback.
Send(p, idx, ev) ==
    LET v == p.views[idx]
        nv == Transition(v, ev)
    IN [views |-> [p.views EXCEPT ![idx] = nv],
        viewStates |-> handleViewTransition(p.viewStates, idx, nv),
        inflight |-> IF Navigates(v, ev) THEN p.inflight \cup {<<idx, ev.url>>} ELSE p.inflight,
        sent |-> Append(p.sent, [view |-> idx, type |-> ev.type, url |-> ev.url,
                                 from |-> [state |-> v.state, url |-> v.url, muted |-> v.muted]])]

\* Mutant of DisplayEv: the rectangle is left in cells, not scaled to pixels.
DisplayEvUnscaled(box) ==
    [type |-> "DISPLAY", url |-> box.url,
     pos |-> [x |-> box.x, y |-> box.y, width |-> box.w, height |-> box.h,
              spaces |-> box.spaces],
     info |-> NoInfo]

DisplayEv(box) ==
    [type |-> "DISPLAY", url |-> box.url,
     pos |-> [x |-> SpaceWidth * box.x, y |-> SpaceHeight * box.y,
              width |-> SpaceWidth * box.w, height |-> SpaceHeight * box.h,
              spaces |-> box.spaces],
     info |-> NoInfo]

PlainEv(type) == [type |-> type, url |-> NoUrl, pos |-> NoPos, info |-> NoInfo]

\* Mutant of NotDisplaying: the fallback takes a view in any state.
AnyState(v) == TRUE

\* !s.state.matches('displaying'), the test of the second find.
NotDisplaying(v) == v.state # "displaying"

\* Mutant of FindSpace: the url match forgets which views are already used.
FindSpaceAnyUse(vs, unusedViews, url) ==
    LET sameUrl == {s \in ViewIds : vs[s].url = url}
        notDisplaying == {s \in unusedViews : vs[s].state # "displaying"}
    IN IF sameUrl # {} THEN Min(sameUrl)
       ELSE IF notDisplaying # {} THEN Min(notDisplaying)
       ELSE -1

\* views.find(...): the first unused view that has the url, else the first
\* unused view that is not displaying; -1 when find returns undefined twice.
FindSpace(vs, unusedViews, url) ==
    LET sameUrl == {s \in unusedViews : vs[s].url = url}
        notDisplaying == {s \in unusedViews : NotDisplaying(vs[s])}
    IN IF sameUrl # {} THEN Min(sameUrl)
       ELSE IF notDisplaying # {} THEN Min(notDisplaying)
       ELSE -1

\* Mutant of ClearAll: views that are displaying are left alone.
RECURSIVE ClearIdle(_, _)
ClearIdle(p, unusedViews) ==
    IF unusedViews = {} THEN p
    ELSE LET s == Min(unusedViews)
         IN ClearIdle(IF p.views[s].state = "displaying" THEN p
                      ELSE Send(p, s, PlainEv("CLEAR")), unusedViews \ {s})

RECURSIVE ClearAll(_, _)
ClearAll(p, unusedViews) ==
    IF unusedViews = {} THEN p
    ELSE LET s == Min(unusedViews)
         IN ClearAll(Send(p, s, PlainEv("CLEAR")), unusedViews \ {s})

\* Mutant of AssignBoxes: a box with no candidate view is skipped.
RECURSIVE AssignBoxesSkip(_, _, _, _)
AssignBoxesSkip(p, boxes, i, unusedViews) ==
    IF i > Len(boxes)
    THEN [pool |-> ClearAll(p, unusedViews), threw |-> FALSE]
    ELSE IF boxes[i].url = NoUrl
    THEN AssignBoxesSkip(p, boxes, i + 1, unusedViews)
    ELSE LET space == FindSpace(p.views, unusedViews, boxes[i].url)
         IN IF space = -1
            THEN AssignBoxesSkip(p, boxes, i + 1, unusedViews)
            ELSE AssignBoxesSkip(Send(p, space, DisplayEv(boxes[i])), boxes, i + 1,
                                 unusedViews \ {space})

\* The loop over the boxes; a box without url is passed over, and a box with
\* no candidate view makes space.send throw, which ends the call before the
\* clearing loop.
RECURSIVE AssignBoxes(_, _, _, _)
AssignBoxes(p, boxes, i, unusedViews) ==
    IF i > Len(boxes)
    THEN [pool |-> ClearAll(p, unusedViews), threw |-> FALSE]
    ELSE IF boxes[i].url = NoUrl
    THEN AssignBoxes(p, boxes, i + 1, unusedViews)
    ELSE LET space == FindSpace(p.views, unusedViews, boxes[i].url)
         IN IF space = -1
            THEN [pool |-> p, threw |-> TRUE]
            ELSE AssignBoxes(Send(p, space, DisplayEv(boxes[i])), boxes, i + 1,
                             unusedViews \ {space})

\* The boxes of every viewURLMap of the model, computed once.
Boxes == [m \in ViewURLMaps |-> boxesFromViewURLMap(GridCount, GridCount, m)]

setViews(p, viewURLMap) == AssignBoxes(p, Boxes[viewURLMap], 1, ViewIds)

\* Mutant of ListenCommand: the two commands swapped.
ListenCommandSwapped(v, viewIdx) ==
    IF viewIdx \in v.pos.spaces THEN "MUTE" ELSE "UNMUTE"

\* isSelectedView ? 'UNMUTE' : 'MUTE'
ListenCommand(v, viewIdx) ==
    IF viewIdx \in v.pos.spaces THEN "UNMUTE" ELSE "MUTE"

RECURSIVE ListenLoop(_, _, _)
ListenLoop(p, idx, viewIdx) ==
    IF idx >= NumViews THEN p
    ELSE IF p.views[idx].state # "displaying"
         THEN ListenLoop(p, idx + 1, viewIdx)
         ELSE ListenLoop(Send(p, idx, PlainEv(ListenCommand(p.views[idx], viewIdx))),
                         idx + 1, viewIdx)

setListeningView(p, viewIdx) == ListenLoop(p, 0, viewIdx)

----------------------------------------------------------------------------
(* State machine                                                           *)

EmptyMap == [c \in Cells |-> NoUrl]
NoEvent == <<-1, NoUrl>>

Init ==
    /\ views = [s \in ViewIds |-> InitView]
    /\ viewStates = [s \in ViewIds |-> ViewSnapshot(InitView)]
    /\ inflight = {}
    /\ focus = NoFocus
    /\ lastOp = "init"
    /\ lastMap = EmptyMap
    /\ lastEvent = NoEvent
    /\ sent = <<>>
    /\ threw = FALSE
    /\ layout = EmptyMap
    /\ failed = {}
    /\ geoMap = <<>>
    /\ geoBoxes = <<>>

Here == Pool(views, viewStates, inflight, <<>>)

Pass(viewURLMap) ==
    \E r \in {setViews(Here, viewURLMap)} :
       /\ views' = r.pool.views
       /\ viewStates' = r.pool.viewStates
       /\ inflight' = r.pool.inflight
       /\ sent' = r.pool.sent
       /\ threw' = r.threw
       /\ lastOp' = "setViews"
       /\ lastMap' = viewURLMap
       /\ lastEvent' = NoEvent
       /\ UNCHANGED <<focus, geo>>

SetViews(viewURLMap) == Pass(viewURLMap) /\ UNCHANGED hist

SetListeningView(viewIdx) ==
    \E p \in {setListeningView(Here, viewIdx)} :
       /\ views' = p.views
       /\ viewStates' = p.viewStates
       /\ inflight' = p.inflight
       /\ sent' = p.sent
       /\ threw' = FALSE
       /\ focus' = viewIdx
       /\ lastOp' = "setListeningView"
       /\ lastMap' = EmptyMap
       /\ lastEvent' = NoEvent
       /\ UNCHANGED <<hist, geo>>

\* The surface of view idx reports the outcome of the navigation to url.
Deliver(idx, url, ev, op) ==
    /\ <<idx, url>> \in inflight
    /\ \E p \in {Send(Pool(views, viewStates, inflight \ {<<idx, url>>}, <<>>), idx, ev)} :
          /\ views' = p.views
          /\ viewStates' = p.viewStates
          /\ inflight' = p.inflight
    /\ sent' = <<>>
    /\ threw' = FALSE
    /\ lastOp' = op
    /\ lastMap' = EmptyMap
    /\ lastEvent' = <<idx, url>>
    /\ UNCHANGED <<focus, geo>>

ReadyEv(url, info) == [type |-> "READY", url |-> url, pos |-> NoPos, info |-> info]
FailedEv(url) == [type |-> "FAILED", url |-> url, pos |-> NoPos, info |-> NoInfo]

ContentReady(idx, url, info) ==
    Deliver(idx, url, ReadyEv(url, info), "ready") /\ UNCHANGED hist

ContentFailed(idx, url) ==
    Deliver(idx, url, FailedEv(url), "failed") /\ UNCHANGED hist

\* Every operation; setViews is called with the maps of one url.
Next ==
    \/ \E viewURLMap \in OneUrlMaps : SetViews(viewURLMap)
    \/ \E viewIdx \in FocusArgs : SetListeningView(viewIdx)
    \/ \E idx \in ViewIds, url \in Urls, info \in Infos : ContentReady(idx, url, info)
    \/ \E idx \in ViewIds, url \in Urls : ContentFailed(idx, url)

Spec == Init /\ [][Next]_vars

\* The layout and content operations alone, setViews with every map; the
\* mute flags stay as built.
NextLayout ==
    \/ \E viewURLMap \in ViewURLMaps : SetViews(viewURLMap)
    \/ \E idx \in ViewIds, url \in Urls, info \in Infos : ContentReady(idx, url, info)
    \/ \E idx \in ViewIds, url \in Urls : ContentFailed(idx, url)

SpecLayout == Init /\ [][NextLayout]_vars

\* The layout and content operations with the history of the layout in force:
\* layout is the map of the most recent setViews call, failed the urls whose
\* load failed since.  setViews is called with the maps that leave cell 1
\* empty.
RetryMaps == {m \in ViewURLMaps : m[1] = NoUrl}

RetrySetViews(viewURLMap) ==
    /\ Pass(viewURLMap)
    /\ layout' = viewURLMap
    /\ failed' = {}

RetryContentFailed(idx, url) ==
    /\ Deliver(idx, url, FailedEv(url), "failed")
    /\ failed' = IF views[idx].state = "loading" /\ views[idx].url = url
                 THEN failed \cup {url} ELSE failed
    /\ UNCHANGED layout

NextRetry ==
    \/ \E viewURLMap \in RetryMaps : RetrySetViews(viewURLMap)
    \/ \E idx \in ViewIds, url \in Urls, info \in Infos : ContentReady(idx, url, info)
    \/ \E idx \in ViewIds, url \in Urls : RetryContentFailed(idx, url)

SpecRetry == Init /\ [][NextRetry]_vars

\* The machine of view 0 on its own, under every event in every order: no
\* surface is attached, so nothing is in flight.  failed holds the urls whose
\* load failed since the view last received DISPLAY.
AllBoxes == UNION {{Boxes[m][i] : i \in DOMAIN Boxes[m]} : m \in ViewURLMaps}

MachineEvents ==
    {DisplayEv(box) : box \in AllBoxes}
      \cup {PlainEv(type) : type \in {"CLEAR", "MUTE", "UNMUTE"}}
      \cup {ReadyEv(url, info) : url \in Urls, info \in Infos}
      \cup {FailedEv(url) : url \in Urls}

MachineSend(ev) ==
    /\ \E p \in {Send(Pool(views, viewStates, {}, <<>>), 0, ev)} :
          /\ views' = p.views
          /\ viewStates' = p.viewStates
          /\ sent' = p.sent
    /\ failed' = IF ev.type = "DISPLAY" THEN {}
                 ELSE IF /\ ev.type = "FAILED"
                         /\ views[0].state = "loading"
                         /\ views[0].url = ev.url
                      THEN failed \cup {ev.url}
                      ELSE failed
    /\ lastOp' = "send"
    /\ UNCHANGED <<inflight, focus, lastMap, lastEvent, threw, layout, geo>>

NextMachine == \E ev \in MachineEvents : MachineSend(ev)

SpecMachine == Init /\ [][NextMachine]_vars

\* The partitioner on its own, on every map of a GeoCount x GeoCount grid.
GeoCells == 0 .. (GeoCount * GeoCount - 1)
GeoMaps == [GeoCells -> Urls \cup {NoUrl}]

InitGeometry ==
    /\ views = [s \in ViewIds |-> InitView]
    /\ viewStates = [s \in ViewIds |-> ViewSnapshot(InitView)]
    /\ inflight = {}
    /\ focus = NoFocus
    /\ lastOp = "init"
    /\ lastMap = EmptyMap
    /\ lastEvent = NoEvent
    /\ sent = <<>>
    /\ threw = FALSE
    /\ layout = EmptyMap
    /\ failed = {}
    /\ geoMap \in GeoMaps
    /\ geoBoxes = <<>>

Partition ==
    /\ lastOp = "init"
    /\ geoBoxes' = boxesFromViewURLMap(GeoCount, GeoCount, geoMap)
    /\ lastOp' = "boxes"
    /\ UNCHANGED <<views, viewStates, inflight, focus, lastMap, lastEvent, sent, threw,
                   hist, geoMap>>

NextGeometry == Partition

SpecGeometry == InitGeometry /\ [][NextGeometry]_vars

----------------------------------------------------------------------------
(* Properties                                                              *)

DisplayIdx == {i \in DOMAIN sent : sent[i].type = "DISPLAY"}
ClearIdx == {i \in DOMAIN sent : sent[i].type = "CLEAR"}
AssignedViews == {sent[i].view : i \in DisplayIdx}
LastBoxes == Boxes[lastMap]
Placement(v) == [state |-> v.state, url |-> v.url, pos |-> v.pos]

\* C1: whenever setViews runs while some view is displaying url u and the
\* new layout has a box with url u, a box with url u goes to a view that was
\* displaying u, and that view is still displaying after the pass.
C1_ReuseStability ==
    [][lastOp' = "setViews" =>
         \A u \in Urls :
            ( /\ \E s \in ViewIds : views[s].state = "displaying" /\ views[s].url = u
              /\ \E i \in DOMAIN Boxes[lastMap'] : Boxes[lastMap'][i].url = u )
            => \E i \in DOMAIN sent' :
                  /\ sent'[i].type = "DISPLAY" /\ sent'[i].url = u
                  /\ views[sent'[i].view].state = "displaying"
                  /\ views[sent'[i].view].url = u
                  /\ views'[sent'[i].view].state = "displaying"]_vars

C4_FocusExclusivity ==
    lastOp = "setListeningView" =>
        \A s \in ViewIds : (~views[s].muted) <=> (focus \in views[s].pos.spaces)

\* C4 as amended: right after setListeningView(c), a displaying view is
\* unmuted if and only if its spaces include c, and a view that is not
\* displaying was sent nothing.
C4_FocusExclusivityDisplaying ==
    lastOp = "setListeningView" =>
        \A s \in ViewIds :
            IF views[s].state = "displaying"
            THEN (~views[s].muted) <=> (focus \in views[s].pos.spaces)
            ELSE \A i \in DOMAIN sent : sent[i].view # s

\* C4 witness: the call unmuted the view under the focus and muted a
\* displaying view that had been unmuted.
C4_Witness ==
    /\ lastOp = "setListeningView"
    /\ \E i, j \in DOMAIN sent :
          /\ sent[i].type = "UNMUTE" /\ ~views[sent[i].view].muted
          /\ sent[j].type = "MUTE" /\ ~sent[j].from.muted /\ views[sent[j].view].muted

\* C5: in every state, every unmuted view has the most recent focus cell
\* among its spaces.
C5_UnmutedCoversFocus ==
    \A s \in ViewIds : ~views[s].muted => focus \in views[s].pos.spaces

C7_SetViewsIdempotent ==
    lastOp = "setViews" =>
        \A s \in ViewIds :
            Placement(setViews(Here, lastMap).pool.views[s]) = Placement(views[s])

\* C8: a setViews pass whose boxes do not outnumber the pool finds a view for
\* every box.
C8_CandidateWithinCapacity ==
    (lastOp = "setViews" /\ Len(LastBoxes) <= NumViews) => ~threw

\* C9 as claimed: setListeningView with an index outside the grid sends no
\* MUTE or UNMUTE and leaves every mute flag as it was.
C9_InvalidFocusRejected ==
    (lastOp = "setListeningView" /\ focus \notin Cells) =>
        /\ sent = <<>>
        /\ \A i \in DOMAIN sent : views[sent[i].view].muted = sent[i].from.muted

\* C9 as amended: setListeningView with an index outside the grid sends MUTE
\* to every displaying view, UNMUTE to none, and leaves every displaying view
\* muted.
C9_InvalidFocusMutesAll ==
    (lastOp = "setListeningView" /\ focus \notin Cells) =>
        /\ \A i \in DOMAIN sent : sent[i].type = "MUTE"
        /\ \A s \in ViewIds :
              views[s].state = "displaying" =>
                  /\ views[s].muted
                  /\ \E i \in DOMAIN sent : sent[i].view = s

\* C9 witness: a call with an index outside the grid muted a view that was
\* unmuted.
C9_Witness ==
    /\ lastOp = "setListeningView"
    /\ focus \notin Cells
    /\ \E i \in DOMAIN sent : sent[i].type = "MUTE" /\ ~sent[i].from.muted

\* C10: a setViews pass that does not place every box of the layout ends by
\* throwing, and sends no CLEAR.
C10_NoCandidateThrows ==
    (lastOp = "setViews" /\ Cardinality(DisplayIdx) < Len(LastBoxes)) =>
        /\ threw
        /\ ClearIdx = {}

\* C10 witness: a pass threw after placing a box.
C10_Witness ==
    /\ lastOp = "setViews"
    /\ threw
    /\ DisplayIdx # {}

\* C11: in every state each entry of viewStates is the snapshot (state, url,
\* info, pos) of its own view, and an operation leaves alone the entries of
\* the views it sent nothing to.
Touched == {sent[i].view : i \in DOMAIN sent} \cup ({lastEvent[1]} \cap ViewIds)

C11_AggregateMatchesViews ==
    /\ [](\A s \in ViewIds : viewStates[s] = ViewSnapshot(views[s]))
    /\ [][\A s \in ViewIds \ Touched' : viewStates'[s] = viewStates[s]]_vars

\* A content-ready event has just moved a view to displaying, and the entry
\* of that view shows it with the url, the info and the pos of the view.
C11_Witness ==
    /\ lastOp = "ready"
    /\ views[lastEvent[1]].state = "displaying"
    /\ viewStates[lastEvent[1]].state = "displaying"
    /\ viewStates[lastEvent[1]].context.url = lastEvent[2]
    /\ viewStates[lastEvent[1]].context.info \in Infos
    /\ viewStates[lastEvent[1]].context.pos.spaces # {}
    /\ \E s \in ViewIds : s # lastEvent[1] /\ viewStates[s].state = "loading"

\* C12: when the load of url u has failed since the most recent setViews call
\* and sent its view back to idle, calling setViews again with the same map
\* sends DISPLAY with url u to a view that is loading u when the pass ends.
C12_RetryOnReissue ==
    \A u \in failed :
       \E r \in {setViews(Here, layout)} :
          \E i \in DOMAIN r.pool.sent :
             /\ r.pool.sent[i].type = "DISPLAY"
             /\ r.pool.sent[i].url = u
             /\ r.pool.views[r.pool.sent[i].view].state = "loading"
             /\ r.pool.views[r.pool.sent[i].view].url = u

\* C13: a view that is idle stays idle in every step that does not send it
\* DISPLAY: content-ready, content-failed, CLEAR, MUTE and UNMUTE leave an
\* idle view idle, so a view whose load failed is not loaded again by itself.
C13_IdleUntilDisplay ==
    [][\A s \in ViewIds :
          (views[s].state = "idle" /\ views'[s].state # "idle")
             => \E i \in DOMAIN sent' : sent'[i].view = s /\ sent'[i].type = "DISPLAY"]_vars

\* The view went idle on a failed load, has received no DISPLAY since, and
\* has just been sent UNMUTE while idle: it is still idle.
C13_Witness ==
    /\ lastOp = "send"
    /\ failed # {}
    /\ sent[1].type = "UNMUTE"
    /\ sent[1].from.state = "idle"
    /\ views[0].state = "idle"

\* C14: for every map the span sets of the boxes the partitioner returns are
\* pairwise disjoint, and their union is exactly the set of cells with a url.
C14_Coverage ==
    lastOp = "boxes" =>
       /\ \A i, j \in DOMAIN geoBoxes :
             i # j => geoBoxes[i].spaces \cap geoBoxes[j].spaces = {}
       /\ UNION {geoBoxes[i].spaces : i \in DOMAIN geoBoxes}
             = {c \in GeoCells : geoMap[c] # NoUrl}

\* A map partitioned into a box of several cells next to a box of the same
\* url that could not be merged with it, with a cell left empty.
C14_Witness ==
    /\ lastOp = "boxes"
    /\ \E c \in GeoCells : geoMap[c] = NoUrl
    /\ \E i, j \in DOMAIN geoBoxes :
          /\ i # j
          /\ geoBoxes[i].url = geoBoxes[j].url
          /\ Cardinality(geoBoxes[i].spaces) > 1
          /\ \E c \in geoBoxes[i].spaces : c + 1 \in geoBoxes[j].spaces

\* C15: when a setViews pass ends, the view that was given the k-th box has
\* that box's url and, as pos, the box's rectangle in pixels with the box's
\* span set, whatever state the view was in before; no view is given cells
\* without url, and a pass that runs to its end has given every box a view.
RegionPos(box) ==
    [x |-> SpaceWidth * box.x, y |-> SpaceHeight * box.y,
     width |-> SpaceWidth * box.w, height |-> SpaceHeight * box.h,
     spaces |-> box.spaces]

C15_AssignedHoldsRegion ==
    lastOp = "setViews" =>
       /\ \A i \in DisplayIdx :
             /\ i <= Len(LastBoxes)
             /\ LastBoxes[i].url \in Urls
             /\ views[sent[i].view].state \in {"loading", "displaying"}
             /\ views[sent[i].view].url = LastBoxes[i].url
             /\ views[sent[i].view].pos = RegionPos(LastBoxes[i])
             /\ \A c \in views[sent[i].view].pos.spaces : lastMap[c] = LastBoxes[i].url
       /\ ~threw => Cardinality(DisplayIdx) = Len(LastBoxes)

\* A pass gave one box to a view that was loading another url and one box to
\* a view that was displaying.
C15_Witness ==
    /\ lastOp = "setViews"
    /\ ~threw
    /\ \E i, j \in DisplayIdx :
          /\ sent[i].from.state = "loading"
          /\ sent[i].from.url # sent[i].url
          /\ sent[j].from.state = "displaying"
          /\ views[sent[i].view].url = sent[i].url
          /\ views[sent[j].view].pos.spaces = LastBoxes[j].spaces

\* C16: from any pool state and for any map, which boxes are given a view
\* that already had the box's url before the pass is the same whatever the
\* order in which the pass takes the boxes.
Orders(n) == {f \in [1 .. n -> 1 .. n] : \A i, j \in 1 .. n : i # j => f[i] # f[j]}
InOrder(boxes, f) == [i \in 1 .. Len(boxes) |-> boxes[f[i]]]
ReusedBoxes(r) ==
    {r.pool.views[r.pool.sent[i].view].pos.spaces :
        i \in {k \in DOMAIN r.pool.sent : /\ r.pool.sent[k].type = "DISPLAY"
                                          /\ r.pool.sent[k].from.url = r.pool.sent[k].url}}

C16_OrderIndependentReuse ==
    \A m \in ViewURLMaps :
       \A f \in Orders(Len(Boxes[m])) :
          ReusedBoxes(AssignBoxes(Here, InOrder(Boxes[m], f), 1, ViewIds))
             = ReusedBoxes(AssignBoxes(Here, Boxes[m], 1, ViewIds))

\* C17: from any pool state and for any map, a setViews pass, which reads the
\* url and the state of the views while it is sending commands, sends the
\* same commands to the same views, and ends the same way, as a pass that
\* matches every box against the views as they were before the first command.
RECURSIVE AssignBoxesFrom(_, _, _, _, _)
AssignBoxesFrom(before, p, boxes, i, unusedViews) ==
    IF i > Len(boxes)
    THEN [pool |-> ClearAll(p, unusedViews), threw |-> FALSE]
    ELSE IF boxes[i].url = NoUrl
    THEN AssignBoxesFrom(before, p, boxes, i + 1, unusedViews)
    ELSE LET space == FindSpace(before, unusedViews, boxes[i].url)
         IN IF space = -1
            THEN [pool |-> p, threw |-> TRUE]
            ELSE AssignBoxesFrom(before, Send(p, space, DisplayEv(boxes[i])), boxes, i + 1,
                                 unusedViews \ {space})

C17_LiveEqualsSnapshot ==
    \A m \in ViewURLMaps :
       AssignBoxesFrom(views, Here, Boxes[m], 1, ViewIds) = setViews(Here, m)

\* A pass gave a box to a view that had another url, the url of a box taken
\* later in the same pass.
C17_Witness ==
    /\ lastOp = "setViews"
    /\ \E i, j \in DisplayIdx :
          /\ i < j
          /\ sent[i].from.url # sent[i].url
          /\ sent[i].from.url = sent[j].url
          /\ sent[j].view # sent[i].view

\* C18: a view that is displaying when a setViews pass reaches it is sent
\* either DISPLAY with the url it has, after which it is still displaying
\* that url, or CLEAR, after which it is idle; it is never sent DISPLAY with
\* another url.
C18_DisplayingKeepsUrl ==
    lastOp = "setViews" =>
       \A i \in DOMAIN sent :
          sent[i].from.state = "displaying" =>
             \/ /\ sent[i].type = "DISPLAY"
                /\ sent[i].url = sent[i].from.url
                /\ views[sent[i].view].state = "displaying"
                /\ views[sent[i].view].url = sent[i].from.url
             \/ /\ sent[i].type = "CLEAR"
                /\ views[sent[i].view].state = "idle"

\* A pass reached two displaying views: one was given a box with the url it
\* had and is still displaying, the other was cleared.
C18_Witness ==
    /\ lastOp = "setViews"
    /\ \E i \in DisplayIdx :
          /\ sent[i].from.state = "displaying"
          /\ views[sent[i].view].state = "displaying"
    /\ \E j \in ClearIdx :
          /\ sent[j].from.state = "displaying"
          /\ views[sent[j].view].state = "idle"

\* C19: in every state an idle view has no url, and a view that is loading
\* or displaying has a url and a pos whose span set is a non-empty set of
\* cells.
C19_UrlIffNotIdle ==
    \A s \in ViewIds :
       /\ views[s].state \in {"idle", "loading", "displaying"}
       /\ views[s].state = "idle" => views[s].url = NoUrl
       /\ views[s].state # "idle" =>
             /\ views[s].url \in Urls
             /\ views[s].pos.spaces # {}
             /\ views[s].pos.spaces \subseteq Cells

\* A failed load has just sent a view back to idle, without url, while
\* another view is displaying a url on its cells.
C19_Witness ==
    /\ lastOp = "failed"
    /\ lastEvent[1] \in ViewIds
    /\ views[lastEvent[1]].state = "idle"
    /\ views[lastEvent[1]].url = NoUrl
    /\ \E s \in ViewIds : /\ views[s].state = "displaying"
                          /\ views[s].url \in Urls
                          /\ views[s].pos.spaces # {}

====
